---- MODULE Spec2Model ----
(***************************************************************************)
(* A model of bcdata's request planner (wfs.define_requests), its fetchers *)
(* (wfs.get_data, wfs.get_features) and the database loader (bc2pg.bc2pg). *)
(*                                                                         *)
(* Optional python values (None / a value) are sequences: <<>> is None,    *)
(* <<v>> is v.  A request (one dict of define_requests, url-encoded in the *)
(* code) is a record of optional fields.                                   *)
(***************************************************************************)
EXTENDS Integers, Sequences, FiniteSets, TLC

\* ------------------------------------------------------------------ bounds

\* The largest number of features the service reports for the dataset.
MaxN == 5

\* The largest page size a caller of define_requests passes.
MaxPage == 3

\* ------------------------------------------------------- optional values

Absent == <<>>

Some(v) == <<v>>

\* python truthiness of an optional int: None and 0 are falsy
TruthyInt(o) == o # Absent /\ o[1] # 0

\* python truthiness of an optional str: None and "" are falsy
TruthyStr(o) == o # Absent /\ o[1] # ""

\* ----------------------------------------------------------------- names

\* str.upper() on the identifiers the model uses
Upper(s) ==
  CASE s = "objectid" -> "OBJECTID"
    [] s = "name" -> "NAME"
    [] s = "bogus" -> "BOGUS"
    [] s = "geom" -> "GEOM"
    [] s = "Point" -> "POINT"
    [] s = "PointZ" -> "POINTZ"
    [] s = "LineString" -> "LINESTRING"
    [] s = "LineStringZ" -> "LINESTRINGZ"
    [] s = "Polygon" -> "POLYGON"
    [] s = "PolygonZ" -> "POLYGONZ"
    [] s = "MultiPoint" -> "MULTIPOINT"
    [] s = "MultiPointZ" -> "MULTIPOINTZ"
    [] s = "MultiLineString" -> "MULTILINESTRING"
    [] s = "MultiLineStringZ" -> "MULTILINESTRINGZ"
    [] s = "MultiPolygon" -> "MULTIPOLYGON"
    [] s = "MultiPolygonZ" -> "MULTIPOLYGONZ"
    [] s = "multipoint" -> "MULTIPOINT"
    [] OTHER -> s

\* str.lower() on the identifiers the model uses
Lower(s) ==
  CASE s = "OBJECTID" -> "objectid"
    [] s = "NAME" -> "name"
    [] s = "SEQUENCE_ID" -> "sequence_id"
    [] s = "FEATURE_ID" -> "feature_id"
    [] s = "BOGUS" -> "bogus"
    [] s = "GEOM" -> "geom"
    [] OTHER -> s

\* the elements of a sequence
Range(s) == {s[i] : i \in DOMAIN s}

\* ------------------------------------------------------------- variables

VARIABLES
  pc,         \* where the running call stands
  err,        \* the exception that ended the call, "" while there is none
  failedAt,   \* the step that raised it
  requests,   \* the network requests issued so far, in order
  hitsFilter, \* the CQL_FILTER the hits-only request was sent with
  hits,       \* numberMatched, as the service reports it for the dataset
  countArg,   \* define_requests' count argument
  pagesize,   \* define_requests' pagesize argument
  sortbyArg,  \* define_requests' sortby argument
  columns,    \* wfs_schema["properties"].keys(), in declared order
  query,      \* define_requests' query argument
  bounds,     \* define_requests' bounds argument
  n,          \* define_requests' local n, once get_count has returned
  urls,       \* the requests define_requests returned
  entry,      \* the function that was called
  maxWorkers, \* get_data's and get_features' max_workers argument
  task,       \* the executor's future of each request: its state
  nextResult, \* the request whose result executor.map's iterator is at
  yieldPos,   \* how many features of that result get_features has yielded
  delivered,  \* the features the caller has received, in order
  append,     \* bc2pg's append argument
  schemaOnly, \* bc2pg's schema_only argument
  timestamp,  \* bc2pg's timestamp argument
  geometryTypeArg, \* bc2pg's geometry_type argument
  primaryKey, \* bc2pg's primary_key argument
  catalogue,  \* table_definition["schema"]: the catalogue's column names
  tableExists, \* whether schema.table is among db.tables
  logRows,    \* the rows of bcdata.log whose table_name is schema.table
  created,    \* whether this call has run db.define_table
  columnNames, \* bc2pg's local column_names, once it is set
  geometryType, \* bc2pg's local geometry_type
  df,         \* bc2pg's local df: None or the batch of one request
  fetched,    \* the batch the service returned for each request so far
  chunk,      \* the request the load loop is at
  dfNulls,    \* bc2pg's local df_nulls between the two appends
  storage,    \* the rows this call has appended to schema.table, in order
  logUpserts  \* how many times this call has run the load-log upsert

planVars == <<pc, err, failedAt, requests, hitsFilter, hits, countArg, pagesize,
              sortbyArg, columns, query, bounds, n, urls>>

planInputs == <<hits, countArg, pagesize, sortbyArg, columns, query, bounds>>

callVars == <<entry, maxWorkers>>

poolVars == <<task, nextResult, yieldPos, delivered>>

loadInputs == <<append, schemaOnly, timestamp, geometryTypeArg, primaryKey,
                catalogue>>

loadState == <<tableExists, logRows, created, columnNames, geometryType, df,
               fetched, chunk, dfNulls, storage, logUpserts>>

loadVars == <<loadInputs, loadState>>

vars == <<planVars, callVars, poolVars, loadVars>>

\* --------------------------------------------------------------- wfs.py

\* the exception classes a call ends with
SystemExitError == "SystemExit"

ConnectionErrorName == "ConnectionError"

\* what requests.get / raise_for_status do for one request: a 200 response,
\* a 4xx/5xx response (raise_for_status raises HTTPError), or no response at
\* all (requests.get raises ConnectionError or Timeout, not an HTTPError)
Outcomes == {"ok", "http_error", "no_response"}

\* the try/except of get_count and make_request: only HTTPError is caught and
\* turned into SystemExit; any other exception of requests.get propagates
RaisedFor(outcome) ==
  CASE outcome = "http_error" -> SystemExitError
    [] outcome = "no_response" -> ConnectionErrorName
    [] OTHER -> ""

\* get_sortkey with its first two tests swapped
get_sortkey_SequenceFirst(cols) ==
  IF "SEQUENCE_ID" \in Range(cols) THEN "SEQUENCE_ID"
  ELSE IF "OBJECTID" \in Range(cols) THEN "OBJECTID"
  ELSE cols[1]

\* get_sortkey: OBJECTID, else SEQUENCE_ID, else the first column
get_sortkey(cols) ==
  IF "OBJECTID" \in Range(cols) THEN "OBJECTID"
  ELSE IF "SEQUENCE_ID" \in Range(cols) THEN "SEQUENCE_ID"
  ELSE cols[1]

\* math.ceil(a / b) for b > 0
Ceil(a, b) == -((-a) \div b)

\* "if not count or count > n: count = n"
EffectiveCount(count, total) ==
  IF ~TruthyInt(count) \/ count[1] > total THEN total ELSE count[1]

\* "chunks = math.ceil(count / pagesize)"
Chunks(count, total, psize) == Ceil(EffectiveCount(count, total), psize)

\* "if chunks > 1 and not sortby: sortby = get_sortkey(table, wfs_schema)"
SortKey(sortby, chunks, cols) ==
  IF chunks > 1 /\ ~TruthyStr(sortby) THEN Some(get_sortkey(cols)) ELSE sortby

\* the CQL_FILTER of a request, from query and bounds
CqlFilter(q, b) ==
  IF b # Absent
  THEN IF ~TruthyStr(q) THEN Some(<<"bbox", b[1]>>)
       ELSE Some(<<q[1], "AND", "bbox", b[1]>>)
  ELSE IF TruthyStr(q) THEN Some(<<q[1]>>) ELSE Absent

\* PageCount without the test for the short last page
PageCount_FullPages(i, cnt, psize) == psize

\* the count of request i (0-based) of a paged plan
PageCount(i, cnt, psize) ==
  IF cnt < i * psize + psize THEN cnt - i * psize ELSE psize

\* Request paging a single chunk too ("if chunks >= 1" for the window)
Request_AlwaysPaged(i, chunks, cnt, psize, sortby, q, b) ==
  [ sortby |-> IF TruthyStr(sortby) THEN Some(Upper(sortby[1])) ELSE Absent,
    CQL_FILTER |-> CqlFilter(q, b),
    startIndex |-> Some(i * psize),
    count |-> Some(PageCount(i, cnt, psize)) ]

\* the body of the loop "for i in range(chunks)": request i (0-based)
Request(i, chunks, cnt, psize, sortby, q, b) ==
  [ sortby |-> IF TruthyStr(sortby) THEN Some(Upper(sortby[1])) ELSE Absent,
    CQL_FILTER |-> CqlFilter(q, b),
    startIndex |-> IF chunks > 1 THEN Some(i * psize) ELSE Absent,
    count |-> IF chunks = 1 THEN Some(cnt)
              ELSE IF chunks > 1 THEN Some(PageCount(i, cnt, psize))
              ELSE Absent ]

\* the list define_requests returns
RequestList(total, count, psize, sortby, cols, q, b) ==
  LET cnt == EffectiveCount(count, total)
      chunks == Chunks(count, total, psize)
      key == SortKey(sortby, chunks, cols)
  IN  [ k \in 1..(IF chunks > 0 THEN chunks ELSE 0) |->
          Request(k - 1, chunks, cnt, psize, key, q, b) ]

\* the window a request asks for: startIndex defaults to 0 in WFS 2.0
WindowStart(r) == IF r.startIndex = Absent THEN 0 ELSE r.startIndex[1]

WindowCount(r) == r.count[1]

\* get_sortkey raises IndexError on columns[0] when the schema has no column
SortKeyRaises(total, count, psize, sortby, cols) ==
  /\ Chunks(count, total, psize) > 1
  /\ ~TruthyStr(sortby)
  /\ "OBJECTID" \notin Range(cols)
  /\ "SEQUENCE_ID" \notin Range(cols)
  /\ cols = <<>>

\* get_count's payload: "if query: payload["CQL_FILTER"] = query"; get_count
\* has no bounds parameter
HitsFilter(q) == IF TruthyStr(q) THEN Some(<<q[1]>>) ELSE Absent

\* get_count: the hits-only request, answered
GetCount ==
  /\ pc = "start"
  /\ requests' = Append(requests, "hits")
  /\ hitsFilter' = HitsFilter(query)
  /\ n' = Some(hits)
  /\ pc' = "counted"
  /\ UNCHANGED <<err, failedAt, urls, planInputs, callVars, poolVars, loadVars>>

\* get_count: the hits-only request fails, by status or on the network
GetCountFails ==
  /\ pc = "start"
  /\ \E outcome \in Outcomes \ {"ok"} :
       /\ requests' = Append(requests, "hits")
       /\ err' = RaisedFor(outcome)
       /\ failedAt' = "get_count"
       /\ pc' = "failed"
  /\ hitsFilter' = HitsFilter(query)
  /\ UNCHANGED <<n, urls, planInputs, callVars, poolVars, loadVars>>

\* define_requests after get_count: the schema request and the request list
DefineRequests ==
  /\ pc = "counted"
  /\ requests' = Append(requests, "schema")
  /\ IF SortKeyRaises(n[1], countArg, pagesize, sortbyArg, columns)
     THEN /\ err' = "IndexError"
          /\ failedAt' = "get_sortkey"
          /\ pc' = "failed"
          /\ UNCHANGED urls
     ELSE /\ urls' = RequestList(n[1], countArg, pagesize, sortbyArg, columns,
                                 query, bounds)
          /\ pc' = "planned"
          /\ UNCHANGED <<err, failedAt>>
  /\ UNCHANGED <<n, planInputs, hitsFilter, callVars, poolVars, loadVars>>

\* ------------------------------------- wfs.py: get_data and get_features

\* max_workers=2, the default of get_data and get_features
DefaultWorkers == 2

\* bc2pg is not running
LoadIdle ==
  /\ append = FALSE
  /\ schemaOnly = FALSE
  /\ timestamp = TRUE
  /\ geometryTypeArg = Absent
  /\ primaryKey = Absent
  /\ catalogue = <<>>
  /\ tableExists = FALSE
  /\ logRows = 0
  /\ created = FALSE
  /\ columnNames = Absent
  /\ geometryType = Absent
  /\ df = Absent
  /\ fetched = <<>>
  /\ chunk = 1
  /\ dfNulls = <<>>
  /\ storage = <<>>
  /\ logUpserts = 0

\* no executor yet
PoolIdle ==
  /\ task = <<>>
  /\ nextResult = 1
  /\ yieldPos = 0
  /\ delivered = <<>>

\* r.json()["features"] of a request the service answers: the features of its
\* window, each named by its index in the sorted dataset
FeaturesOf(r) == [k \in 1..r.count[1] |-> WindowStart(r) + k - 1]

\* the features of the first k requests, in list order
RECURSIVE Collected(_)
Collected(k) ==
  IF k = 0 THEN <<>> ELSE Collected(k - 1) \o FeaturesOf(urls[k])

\* a future that has finished, with a result or with an exception
Finished(st) == st \in {"ok", SystemExitError, ConnectionErrorName}

\* a future whose result() raises
Raised(st) == st \in {SystemExitError, ConnectionErrorName}

\* executor.map(make_request, urls): every request is submitted at once
Submit ==
  /\ entry \in {"get_data", "get_features"}
  /\ pc = "planned"
  /\ task' = [i \in DOMAIN urls |-> "queued"]
  /\ pc' = "pool"
  /\ UNCHANGED <<err, failedAt, requests, n, urls, planInputs, hitsFilter,
                 callVars,
                 nextResult, yieldPos, delivered, loadVars>>

\* a worker thread takes the oldest queued request off the work queue
StartTask ==
  /\ pc \in {"pool", "unwinding"}
  /\ Cardinality({i \in DOMAIN task : task[i] = "running"}) < maxWorkers
  /\ \E i \in DOMAIN task :
       /\ task[i] = "queued"
       /\ \A j \in 1..(i - 1) : task[j] # "queued"
       /\ task' = [task EXCEPT ![i] = "running"]
       /\ requests' = Append(requests, "GetFeature")
  /\ UNCHANGED <<pc, err, failedAt, n, urls, planInputs, hitsFilter, callVars,
                 nextResult, yieldPos, delivered, loadVars>>

\* make_request returns or raises in its worker thread; the future keeps it
FinishTask ==
  /\ pc \in {"pool", "unwinding"}
  /\ \E i \in DOMAIN task, outcome \in Outcomes :
       /\ task[i] = "running"
       /\ task' = [task EXCEPT
                     ![i] = IF outcome = "ok" THEN "ok" ELSE RaisedFor(outcome)]
  /\ UNCHANGED <<pc, err, failedAt, requests, n, urls, planInputs, hitsFilter,
                 callVars,
                 nextResult, yieldPos, delivered, loadVars>>

\* the requests before the first whose future raised: all of them if none did
GoodPrefix ==
  IF \E i \in DOMAIN task : Raised(task[i])
  THEN (CHOOSE i \in DOMAIN task :
          Raised(task[i]) /\ \A j \in 1..(i - 1) : ~Raised(task[j])) - 1
  ELSE Len(task)

\* GetDataCollect with the loop over results ended, not aborted, by a failed
\* request ("except: break"): what was gathered so far is returned
GetDataCollect_KeepPartial ==
  /\ entry = "get_data"
  /\ pc = "pool"
  /\ \A i \in DOMAIN task : Finished(task[i])
  /\ pc' = "done"
  /\ delivered' = Collected(GoodPrefix)
  /\ nextResult' = GoodPrefix + 1
  /\ UNCHANGED <<err, failedAt, requests, n, urls, planInputs, hitsFilter,
                 callVars, task,
                 yieldPos, loadVars>>

\* get_data: the with block ends once every future has finished; the loop
\* over results then either raises at the first failed request, dropping
\* outjson, or returns the features of all requests
GetDataCollect ==
  /\ entry = "get_data"
  /\ pc = "pool"
  /\ \A i \in DOMAIN task : Finished(task[i])
  /\ IF GoodPrefix < Len(task)
     THEN /\ pc' = "failed"
          /\ err' = task[GoodPrefix + 1]
          /\ failedAt' = "make_request"
          /\ nextResult' = GoodPrefix + 1
          /\ UNCHANGED delivered
     ELSE /\ pc' = "done"
          /\ delivered' = Collected(Len(task))
          /\ nextResult' = Len(task) + 1
          /\ UNCHANGED <<err, failedAt>>
  /\ UNCHANGED <<requests, n, urls, planInputs, hitsFilter,
                 callVars, task, yieldPos,
                 loadVars>>

\* get_features: "yield feature" for the next feature of the current result
YieldFeature ==
  /\ entry = "get_features"
  /\ pc = "pool"
  /\ nextResult \in DOMAIN task
  /\ task[nextResult] = "ok"
  /\ delivered' = Append(delivered, FeaturesOf(urls[nextResult])[yieldPos + 1])
  /\ IF yieldPos + 1 = Len(FeaturesOf(urls[nextResult]))
     THEN nextResult' = nextResult + 1 /\ yieldPos' = 0
     ELSE yieldPos' = yieldPos + 1 /\ UNCHANGED nextResult
  /\ UNCHANGED <<pc, err, failedAt, requests, n, urls, planInputs, hitsFilter,
                 callVars,
                 task, loadVars>>

\* get_features: the current result raises; executor.map's iterator cancels
\* the futures still queued, and the with block waits for the running ones
RaiseResult ==
  /\ entry = "get_features"
  /\ pc = "pool"
  /\ nextResult \in DOMAIN task
  /\ Raised(task[nextResult])
  /\ err' = task[nextResult]
  /\ failedAt' = "make_request"
  /\ task' = [i \in DOMAIN task |->
                IF task[i] = "queued" THEN "cancelled" ELSE task[i]]
  /\ pc' = "unwinding"
  /\ UNCHANGED <<requests, n, urls, planInputs, hitsFilter,
                 callVars, nextResult, yieldPos,
                 delivered, loadVars>>

\* get_features: the with block ends and the exception reaches the caller
Unwind ==
  /\ entry = "get_features"
  /\ pc = "unwinding"
  /\ \A i \in DOMAIN task : task[i] # "running"
  /\ pc' = "failed"
  /\ UNCHANGED <<err, failedAt, requests, n, urls, planInputs, hitsFilter,
                 callVars,
                 poolVars, loadVars>>

\* get_features: every result is consumed and the generator returns
Exhausted ==
  /\ entry = "get_features"
  /\ pc = "pool"
  /\ nextResult = Len(task) + 1
  /\ pc' = "done"
  /\ UNCHANGED <<err, failedAt, requests, n, urls, planInputs, hitsFilter,
                 callVars,
                 poolVars, loadVars>>

\* the largest max_workers a caller passes
MaxWorkers == 2

InitFetch ==
  /\ pc = "start"
  /\ err = ""
  /\ failedAt = ""
  /\ requests = <<>>
  /\ hitsFilter = Absent
  /\ hits \in 0..MaxN
  /\ countArg \in {Absent, Some(2)}
  /\ pagesize \in 1..MaxPage
  /\ sortbyArg = Absent
  /\ columns = <<"OBJECTID", "NAME">>
  /\ query = Absent
  /\ bounds = Absent
  /\ n = Absent
  /\ urls = <<>>
  /\ entry \in {"get_data", "get_features"}
  /\ maxWorkers \in 1..MaxWorkers
  /\ PoolIdle
  /\ LoadIdle

NextFetch ==
  \/ GetCount \/ GetCountFails \/ DefineRequests
  \/ Submit \/ StartTask \/ FinishTask
  \/ GetDataCollect
  \/ YieldFeature \/ RaiseResult \/ Unwind \/ Exhausted

SpecFetch == InitFetch /\ [][NextFetch]_vars

\* ---------------------------------------------------------------- bc2pg.py

\* pagesize=10000, define_requests' default, which bc2pg leaves as it is;
\* scaled down so that a dataset of a few rows needs several requests
DefaultPageSize == 2

\* the largest dataset bc2pg is run on
MaxRows == 3

SUPPORTED_TYPES ==
  { "POINT", "POINTZ", "MULTIPOINT", "MULTIPOINTZ", "LINESTRING",
    "LINESTRINGZ", "MULTILINESTRING", "MULTILINESTRINGZ", "POLYGON",
    "MULTIPOLYGON" }

\* a shapely geometry: its class, whether it has a third coordinate, and for
\* a multi-part geometry its members
Geometry(t, z, ms) == [type |-> t, z |-> z, members |-> ms]

Single(t, z) == Geometry(t, z, <<>>)

\* geometry_type + "Z"
WithZ(t) ==
  CASE t = "Point" -> "PointZ"
    [] t = "LineString" -> "LineStringZ"
    [] t = "Polygon" -> "PolygonZ"
    [] t = "MultiPoint" -> "MultiPointZ"
    [] t = "MultiLineString" -> "MultiLineStringZ"
    [] t = "MultiPolygon" -> "MultiPolygonZ"
    [] OTHER -> t

\* CastPoint without its isinstance test
CastPoint_AnyGeometry(g) == Geometry("MultiPoint", g.z, <<g>>)

\* MultiPoint([feature]) if isinstance(feature, Point) else feature
CastPoint(g) ==
  IF g.type = "Point" THEN Geometry("MultiPoint", g.z, <<g>>) ELSE g

\* MultiLineString([feature]) if isinstance(feature, LineString) else feature
CastLineString(g) ==
  IF g.type = "LineString" THEN Geometry("MultiLineString", g.z, <<g>>) ELSE g

\* MultiPolygon([feature]) if isinstance(feature, Polygon) else feature
CastPolygon(g) ==
  IF g.type = "Polygon" THEN Geometry("MultiPolygon", g.z, <<g>>) ELSE g

\* the three list comprehensions over df["geom"], one after the other
Normalize(geoms) ==
  LET points == [i \in DOMAIN geoms |-> CastPoint(geoms[i])]
      lines == [i \in DOMAIN points |-> CastLineString(points[i])]
  IN  [i \in DOMAIN lines |-> CastPolygon(lines[i])]

\* the geometries a feature of the modelled datasets may carry; <<>> is null
GeomSample ==
  { Absent,
    Some(Single("Point", FALSE)),
    Some(Single("Point", TRUE)),
    Some(Single("LineString", FALSE)),
    Some(Geometry("MultiPolygon", FALSE, <<Single("Polygon", FALSE)>>)) }

\* WFS.make_requests([url]): the batches the service may return for a
\* request, one feature per index of its window
BatchesOf(r) ==
  { [k \in 1..r.count[1] |->
       [id |-> WindowStart(r) + k - 1, geometry |-> gs[k]]] :
    gs \in [1..r.count[1] -> GeomSample] }

\* the batch already returned for request k, if any: the dataset does not
\* change while it is loaded
FetchedOf(k) == IF k \in DOMAIN fetched THEN fetched[k] ELSE Absent

\* the batches request k may return now
AnswersTo(k) ==
  IF FetchedOf(k) # Absent THEN {FetchedOf(k)[1]} ELSE BatchesOf(urls[k])

\* df.geom_type.unique()[0], with "Z" added if df.has_z.unique()[0]: the
\* type of the first feature, None if its geometry is null
ShapeOf(batch) ==
  IF batch[1].geometry = Absent THEN Absent
  ELSE LET g == batch[1].geometry[1]
       IN  Some(IF g.z THEN WithZ(g.type) ELSE g.type)

\* the columns of the target table: the catalogue's, lower-cased, and geom
TargetColumns == {Lower(c) : c \in Range(catalogue)} \cup {"geom"}

\* df[df["geom"].notna()], cast to multi-part
GeomRows(batch) ==
  LET kept == SelectSeq(batch, LAMBDA f : f.geometry # Absent)
      cast == Normalize([i \in DOMAIN kept |-> kept[i].geometry[1]])
  IN  [i \in DOMAIN kept |->
         [id |-> kept[i].id, path |-> "to_postgis", geom |-> Some(cast[i])]]

\* df[df["geom"].isna()].drop(columns=["geom"])
NullRows(batch) ==
  LET kept == SelectSeq(batch, LAMBDA f : f.geometry = Absent)
  IN  [i \in DOMAIN kept |->
         [id |-> kept[i].id, path |-> "to_sql", geom |-> Absent]]

\* INSERT ... ON CONFLICT (table_name) DO UPDATE: the rows of the key after
Upsert(rows) == IF rows = 0 THEN 1 ELSE rows

Fail(e, at) ==
  /\ pc' = "failed"
  /\ err' = e
  /\ failedAt' = at

\* append: "if schema_name.table_name not in db.tables: raise", else the
\* table's columns are read
CheckTarget ==
  /\ entry = "bc2pg"
  /\ pc = "planned"
  /\ append
  /\ IF ~tableExists
     THEN /\ Fail("ValueError", "target_missing")
          /\ UNCHANGED columnNames
     ELSE /\ columnNames' = Some(TargetColumns)
          /\ pc' = "check_sortby"
          /\ UNCHANGED <<err, failedAt>>
  /\ UNCHANGED <<requests, n, urls, planInputs, hitsFilter,
                 callVars, poolVars, loadInputs,
                 tableExists, logRows, created, geometryType, df, fetched,
                 chunk, dfNulls, storage, logUpserts>>

\* create: the catalogue request; "if not table_definition["schema"]: raise"
GetTableDefinition ==
  /\ entry = "bc2pg"
  /\ pc = "planned"
  /\ ~append
  /\ requests' = Append(requests, "catalogue")
  /\ IF catalogue = <<>>
     THEN Fail("ValueError", "schema_unavailable")
     ELSE pc' = "resolve_geom" /\ UNCHANGED <<err, failedAt>>
  /\ UNCHANGED <<n, urls, planInputs, hitsFilter, callVars, poolVars, loadVars>>

\* "if not geometry_type" is false: the caller's geometry_type is used
UseGivenType ==
  /\ entry = "bc2pg"
  /\ pc = "resolve_geom"
  /\ TruthyStr(geometryTypeArg)
  /\ geometryType' = geometryTypeArg
  /\ pc' = "validate_geom"
  /\ UNCHANGED <<err, failedAt, requests, n, urls, planInputs, hitsFilter,
                 callVars,
                 poolVars, loadInputs, tableExists, logRows, created,
                 columnNames, df, fetched, chunk, dfNulls, storage, logUpserts>>

\* the first probe: urls[0] is fetched into df and its first feature read
FirstProbe ==
  /\ entry = "bc2pg"
  /\ pc = "resolve_geom"
  /\ ~TruthyStr(geometryTypeArg)
  /\ IF urls = <<>>
     THEN /\ Fail("IndexError", "first_probe")
          /\ UNCHANGED <<requests, df, fetched, geometryType>>
     ELSE /\ requests' = Append(requests, "GetFeature")
          /\ \E b \in AnswersTo(1) :
               /\ df' = Some(b)
               /\ fetched' = (1 :> Some(b)) @@ fetched
               /\ geometryType' = ShapeOf(b)
          /\ pc' = "second_probe"
          /\ UNCHANGED <<err, failedAt>>
  /\ UNCHANGED <<n, urls, planInputs, hitsFilter,
                 callVars, poolVars, loadInputs,
                 tableExists, logRows, created, columnNames, chunk, dfNulls,
                 storage, logUpserts>>

\* a request of WFS.make_requests fails
FetchFails(at) ==
  /\ requests' = Append(requests, "GetFeature")
  /\ Fail("UpstreamError", at)
  /\ UNCHANGED <<n, urls, planInputs, hitsFilter, callVars, poolVars, loadVars>>

FirstProbeFails ==
  /\ entry = "bc2pg"
  /\ pc = "resolve_geom"
  /\ ~TruthyStr(geometryTypeArg)
  /\ urls # <<>>
  /\ FetchFails("first_probe")

\* "if not geometry_type: if not urls[-1] == urls[0]": the last request is
\* fetched into df_temp and its first feature read
SecondProbe ==
  /\ entry = "bc2pg"
  /\ pc = "second_probe"
  /\ IF geometryType = Absent /\ urls[Len(urls)] # urls[1]
     THEN /\ requests' = Append(requests, "GetFeature")
          /\ \E b \in AnswersTo(Len(urls)) :
               /\ fetched' = (Len(urls) :> Some(b)) @@ fetched
               /\ geometryType' = ShapeOf(b)
     ELSE UNCHANGED <<requests, fetched, geometryType>>
  /\ pc' = "validate_geom"
  /\ UNCHANGED <<err, failedAt, n, urls, planInputs, hitsFilter,
                 callVars, poolVars,
                 loadInputs, tableExists, logRows, created, columnNames, df,
                 chunk, dfNulls, storage, logUpserts>>

SecondProbeFails ==
  /\ entry = "bc2pg"
  /\ pc = "second_probe"
  /\ geometryType = Absent
  /\ urls[Len(urls)] # urls[1]
  /\ FetchFails("second_probe")

\* geometry_type.upper() and the test against SUPPORTED_TYPES
ValidateGeom ==
  /\ entry = "bc2pg"
  /\ pc = "validate_geom"
  /\ IF geometryType = Absent
     THEN Fail("AttributeError", "geometry_type") /\ UNCHANGED geometryType
     ELSE IF Upper(geometryType[1]) \notin SUPPORTED_TYPES
     THEN /\ Fail("ValueError", "unsupported_geometry")
          /\ geometryType' = Some(Upper(geometryType[1]))
     ELSE /\ geometryType' = Some(Upper(geometryType[1]))
          /\ pc' = "check_primary_key"
          /\ UNCHANGED <<err, failedAt>>
  /\ UNCHANGED <<requests, n, urls, planInputs, hitsFilter,
                 callVars, poolVars, loadInputs,
                 tableExists, logRows, created, columnNames, df, fetched,
                 chunk, dfNulls, storage, logUpserts>>

\* "if primary_key and primary_key.upper() not in [...]"
PrimaryKeyMissing ==
  /\ TruthyStr(primaryKey)
  /\ Upper(primaryKey[1]) \notin {Upper(c) : c \in Range(catalogue)}

\* CheckPrimaryKey placed after the call of db.define_table
CheckPrimaryKey_AfterCreate ==
  /\ entry = "bc2pg"
  /\ pc = "check_primary_key"
  /\ created' = TRUE
  /\ tableExists' = TRUE
  /\ columnNames' = Some(TargetColumns)
  /\ IF PrimaryKeyMissing
     THEN Fail("ValueError", "invalid_primary_key")
     ELSE pc' = "check_sortby" /\ UNCHANGED <<err, failedAt>>
  /\ UNCHANGED <<requests, n, urls, planInputs, hitsFilter,
                 callVars, poolVars, loadInputs,
                 logRows, geometryType, df, fetched, chunk, dfNulls, storage,
                 logUpserts>>

CheckPrimaryKey ==
  /\ entry = "bc2pg"
  /\ pc = "check_primary_key"
  /\ IF PrimaryKeyMissing
     THEN Fail("ValueError", "invalid_primary_key")
     ELSE pc' = "define_table" /\ UNCHANGED <<err, failedAt>>
  /\ UNCHANGED <<requests, n, urls, planInputs, hitsFilter,
                 callVars, poolVars, loadVars>>

\* db.define_table: the table is created, in one step
DefineTable ==
  /\ entry = "bc2pg"
  /\ pc = "define_table"
  /\ created' = TRUE
  /\ tableExists' = TRUE
  /\ columnNames' = Some(TargetColumns)
  /\ pc' = "check_sortby"
  /\ UNCHANGED <<err, failedAt, requests, n, urls, planInputs, hitsFilter,
                 callVars,
                 poolVars, loadInputs, logRows, geometryType, df, fetched,
                 chunk, dfNulls, storage, logUpserts>>

\* a statement sent to the database fails
DatabaseFails(at) ==
  /\ Fail("DatabaseError", at)
  /\ UNCHANGED <<requests, n, urls, planInputs, hitsFilter,
                 callVars, poolVars, loadVars>>

DefineTableFails ==
  /\ entry = "bc2pg"
  /\ pc = "define_table"
  /\ DatabaseFails("define_table")

\* "if sortby and sortby.lower() not in column_names: raise"; then the load
\* loop is entered, unless schema_only
CheckSortby ==
  /\ entry = "bc2pg"
  /\ pc = "check_sortby"
  /\ IF TruthyStr(sortbyArg) /\ Lower(sortbyArg[1]) \notin columnNames[1]
     THEN Fail("ValueError", "invalid_sortby")
     ELSE /\ pc' = IF schemaOnly THEN "done"
                   ELSE IF urls = <<>> THEN "finalize" ELSE "loading"
          /\ UNCHANGED <<err, failedAt>>
  /\ UNCHANGED <<requests, n, urls, planInputs, hitsFilter,
                 callVars, poolVars, loadVars>>

\* "if df is None: df = WFS.make_requests([url], ...)"
LoadFetch ==
  /\ entry = "bc2pg"
  /\ pc = "loading"
  /\ df = Absent
  /\ requests' = Append(requests, "GetFeature")
  /\ \E b \in AnswersTo(chunk) :
       /\ df' = Some(b)
       /\ fetched' = (chunk :> Some(b)) @@ fetched
  /\ UNCHANGED <<pc, err, failedAt, n, urls, planInputs, hitsFilter,
                 callVars, poolVars,
                 loadInputs, tableExists, logRows, created, columnNames,
                 geometryType, chunk, dfNulls, storage, logUpserts>>

LoadFetchFails ==
  /\ entry = "bc2pg"
  /\ pc = "loading"
  /\ df = Absent
  /\ FetchFails("load_fetch")

\* the batch is tidied, split and cast, and df.to_postgis appends the rows
\* that have a geometry
LoadGeoms ==
  /\ entry = "bc2pg"
  /\ pc = "loading"
  /\ df # Absent
  /\ storage' = storage \o GeomRows(df[1])
  /\ dfNulls' = NullRows(df[1])
  /\ pc' = "nulls"
  /\ UNCHANGED <<err, failedAt, requests, n, urls, planInputs, hitsFilter,
                 callVars,
                 poolVars, loadInputs, tableExists, logRows, created,
                 columnNames, geometryType, df, fetched, chunk, logUpserts>>

LoadGeomsFails ==
  /\ entry = "bc2pg"
  /\ pc = "loading"
  /\ df # Absent
  /\ DatabaseFails("to_postgis")

\* LoadNulls with the load-log upsert indented into the loop
LoadNulls_LogsEachChunk ==
  /\ entry = "bc2pg"
  /\ pc = "nulls"
  /\ storage' = storage \o dfNulls
  /\ dfNulls' = <<>>
  /\ df' = Absent
  /\ chunk' = chunk + 1
  /\ IF timestamp
     THEN logUpserts' = logUpserts + 1 /\ logRows' = Upsert(logRows)
     ELSE UNCHANGED <<logUpserts, logRows>>
  /\ pc' = IF chunk = Len(urls) THEN "done" ELSE "loading"
  /\ UNCHANGED <<err, failedAt, requests, n, urls, planInputs, hitsFilter,
                 callVars,
                 poolVars, loadInputs, tableExists, created, columnNames,
                 geometryType, fetched>>

\* LoadNulls without "df = None" at the end of the loop body
LoadNulls_KeepsDf ==
  /\ entry = "bc2pg"
  /\ pc = "nulls"
  /\ storage' = storage \o dfNulls
  /\ dfNulls' = <<>>
  /\ chunk' = chunk + 1
  /\ pc' = IF chunk = Len(urls) THEN "finalize" ELSE "loading"
  /\ UNCHANGED <<err, failedAt, requests, n, urls, planInputs, hitsFilter,
                 callVars,
                 poolVars, loadInputs, tableExists, logRows, created,
                 columnNames, geometryType, df, fetched, logUpserts>>

\* df_nulls.to_sql appends the rows without geometry; "df = None" and the
\* loop goes on to the next request
LoadNulls ==
  /\ entry = "bc2pg"
  /\ pc = "nulls"
  /\ storage' = storage \o dfNulls
  /\ dfNulls' = <<>>
  /\ df' = Absent
  /\ chunk' = chunk + 1
  /\ pc' = IF chunk = Len(urls) THEN "finalize" ELSE "loading"
  /\ UNCHANGED <<err, failedAt, requests, n, urls, planInputs, hitsFilter,
                 callVars,
                 poolVars, loadInputs, tableExists, logRows, created,
                 columnNames, geometryType, fetched, logUpserts>>

LoadNullsFails ==
  /\ entry = "bc2pg"
  /\ pc = "nulls"
  /\ DatabaseFails("to_sql")

\* "if timestamp:" the bookkeeping table is made if missing and the row of
\* schema.table upserted; then bc2pg returns
Finalize ==
  /\ entry = "bc2pg"
  /\ pc = "finalize"
  /\ IF timestamp
     THEN logUpserts' = logUpserts + 1 /\ logRows' = Upsert(logRows)
     ELSE UNCHANGED <<logUpserts, logRows>>
  /\ pc' = "done"
  /\ UNCHANGED <<err, failedAt, requests, n, urls, planInputs, hitsFilter,
                 callVars,
                 poolVars, loadInputs, tableExists, created, columnNames,
                 geometryType, df, fetched, chunk, dfNulls, storage>>

FinalizeFails ==
  /\ entry = "bc2pg"
  /\ pc = "finalize"
  /\ timestamp
  /\ DatabaseFails("log")

\* bc2pg called, with the database and the bookkeeping table as an earlier
\* load may have left them; in append mode geometry_type and primary_key are
\* not read, and bc2pg passes define_requests neither bounds nor pagesize
Init ==
  /\ pc = "start"
  /\ err = ""
  /\ failedAt = ""
  /\ requests = <<>>
  /\ hitsFilter = Absent
  /\ hits \in 0..MaxRows
  /\ countArg \in {Absent, Some(1)}
  /\ pagesize = DefaultPageSize
  /\ sortbyArg \in {Absent, Some("OBJECTID"), Some("bogus")}
  /\ columns = <<"OBJECTID", "NAME">>
  /\ query = Absent
  /\ bounds = Absent
  /\ n = Absent
  /\ urls = <<>>
  /\ entry = "bc2pg"
  /\ maxWorkers = DefaultWorkers
  /\ PoolIdle
  /\ append \in BOOLEAN
  /\ schemaOnly \in BOOLEAN
  /\ timestamp \in BOOLEAN
  /\ geometryTypeArg \in
       IF append THEN {Absent}
       ELSE {Absent, Some("multipoint"), Some("PolygonZ")}
  /\ primaryKey \in
       IF append THEN {Absent} ELSE {Absent, Some("objectid"), Some("bogus")}
  /\ catalogue \in {<<>>, <<"OBJECTID", "NAME">>}
  /\ tableExists \in BOOLEAN
  /\ logRows \in {0, 1}
  /\ created = FALSE
  /\ columnNames = Absent
  /\ geometryType = Absent
  /\ df = Absent
  /\ fetched = <<>>
  /\ chunk = 1
  /\ dfNulls = <<>>
  /\ storage = <<>>
  /\ logUpserts = 0

Next ==
  \/ GetCount \/ GetCountFails \/ DefineRequests
  \/ CheckTarget
  \/ GetTableDefinition
  \/ UseGivenType \/ FirstProbe \/ FirstProbeFails
  \/ SecondProbe \/ SecondProbeFails
  \/ ValidateGeom
  \/ CheckPrimaryKey
  \/ DefineTable \/ DefineTableFails
  \/ CheckSortby
  \/ LoadFetch \/ LoadFetchFails
  \/ LoadGeoms \/ LoadGeomsFails
  \/ LoadNulls \/ LoadNullsFails
  \/ Finalize \/ FinalizeFails

Spec == Init /\ [][Next]_vars

\* ------------------------------------- the cast to multi-part on its own

\* the largest batch the cast is applied to
MaxBatch == 2

\* a multi-part geometry of one or two members
Multi(t, part, z) ==
  {Geometry(t, z, <<Single(part, z)>>),
   Geometry(t, z, <<Single(part, z), Single(part, z)>>)}

\* every geometry a GeoJSON feature of the supported classes may carry
AllGeoms ==
  UNION { {Single("Point", z), Single("LineString", z), Single("Polygon", z)}
            \cup Multi("MultiPoint", "Point", z)
            \cup Multi("MultiLineString", "LineString", z)
            \cup Multi("MultiPolygon", "Polygon", z) : z \in BOOLEAN }

\* lines 171-184 applied to a df whose rows all have a geometry
CastBatch(batch) ==
  LET cast == Normalize([i \in DOMAIN batch |-> batch[i].geometry[1]])
  IN  [i \in DOMAIN batch |-> [id |-> batch[i].id, geometry |-> Some(cast[i])]]

\* the cast applied to the batch
CastToMulti ==
  /\ entry = "normalize"
  /\ pc = "start"
  /\ df' = Some(CastBatch(df[1]))
  /\ pc' = "normalized"
  /\ UNCHANGED <<err, failedAt, requests, n, urls, planInputs, hitsFilter,
                 callVars,
                 poolVars, loadInputs, tableExists, logRows, created,
                 columnNames, geometryType, fetched, chunk, dfNulls, storage,
                 logUpserts>>

\* the cast applied to its own result
CastAgain ==
  /\ entry = "normalize"
  /\ pc = "normalized"
  /\ df' = Some(CastBatch(df[1]))
  /\ pc' = "renormalized"
  /\ UNCHANGED <<err, failedAt, requests, n, urls, planInputs, hitsFilter,
                 callVars,
                 poolVars, loadInputs, tableExists, logRows, created,
                 columnNames, geometryType, fetched, chunk, dfNulls, storage,
                 logUpserts>>

InitNorm ==
  /\ pc = "start"
  /\ err = ""
  /\ failedAt = ""
  /\ requests = <<>>
  /\ hitsFilter = Absent
  /\ hits = 0
  /\ countArg = Absent
  /\ pagesize = DefaultPageSize
  /\ sortbyArg = Absent
  /\ columns = <<"OBJECTID", "NAME">>
  /\ query = Absent
  /\ bounds = Absent
  /\ n = Absent
  /\ urls = <<>>
  /\ entry = "normalize"
  /\ maxWorkers = DefaultWorkers
  /\ PoolIdle
  /\ append = FALSE
  /\ schemaOnly = FALSE
  /\ timestamp = TRUE
  /\ geometryTypeArg = Absent
  /\ primaryKey = Absent
  /\ catalogue = <<>>
  /\ tableExists = FALSE
  /\ logRows = 0
  /\ created = FALSE
  /\ columnNames = Absent
  /\ geometryType = Absent
  /\ \E len \in 1..MaxBatch :
       \E gs \in [1..len -> AllGeoms] :
         LET batch == [i \in 1..len |-> [id |-> i - 1, geometry |-> Some(gs[i])]]
         IN  df = Some(batch) /\ fetched = (1 :> Some(batch))
  /\ chunk = 1
  /\ dfNulls = <<>>
  /\ storage = <<>>
  /\ logUpserts = 0

NextNorm == CastToMulti \/ CastAgain

SpecNorm == InitNorm /\ [][NextNorm]_vars

\* ------------------------------------------- the planner on its own

\* count: None, or an int below, within or above the hits count
CountArgs == {Absent} \cup {Some(k) : k \in (-1)..(MaxN + 1)}

\* sortby: None, "", or a column name in either case
SortbyArgs == {Absent, Some(""), Some("name"), Some("OBJECTID")}

\* the property names of the service's schema, in declared order; the
\* service names its columns in upper case (OBJECTID, SEQUENCE_ID,
\* FEATURE_ID), which the sortby.upper() of define_requests relies on
ColumnLists ==
  { <<>>, <<"OBJECTID", "NAME">>, <<"NAME", "OBJECTID">>,
    <<"SEQUENCE_ID", "NAME">>, <<"NAME", "SEQUENCE_ID", "OBJECTID">>,
    <<"FEATURE_ID", "NAME">>, <<"NAME", "FEATURE_ID">> }

InitPlan ==
  /\ pc = "start"
  /\ err = ""
  /\ failedAt = ""
  /\ requests = <<>>
  /\ hitsFilter = Absent
  /\ hits \in 0..MaxN
  /\ countArg \in CountArgs
  /\ pagesize \in 1..MaxPage
  /\ sortbyArg \in SortbyArgs
  /\ columns \in ColumnLists
  /\ query \in {Absent, Some("q")}
  /\ bounds \in {Absent, Some("b")}
  /\ n = Absent
  /\ urls = <<>>
  /\ entry = "define_requests"
  /\ maxWorkers = DefaultWorkers
  /\ PoolIdle
  /\ LoadIdle

NextPlan == GetCount \/ GetCountFails \/ DefineRequests

SpecPlan == InitPlan /\ [][NextPlan]_vars

\* ------------------------------------------------ claims on the planner


RECURSIVE SumCounts(_)
SumCounts(rs) ==
  IF rs = <<>> THEN 0 ELSE WindowCount(Head(rs)) + SumCounts(Tail(rs))

\* the effective count as C1 words it: the caller's count when it is given
\* and smaller than the hits count
StatedCount ==
  IF countArg # Absent /\ countArg[1] < hits THEN countArg[1] ELSE hits

\* the same, a count of 0 standing for "no count"
NonZeroCount ==
  IF countArg # Absent /\ countArg[1] # 0 /\ countArg[1] < hits
  THEN countArg[1] ELSE hits

\* urls holds ceil(m / pagesize) requests whose windows partition [0, m)
PartitionsExactly(m) ==
  /\ Len(urls) * pagesize >= m
  /\ Len(urls) > 0 => (Len(urls) - 1) * pagesize < m
  /\ \A i \in DOMAIN urls : urls[i].count # Absent /\ WindowCount(urls[i]) >= 1
  /\ Len(urls) > 1 => \A i \in DOMAIN urls : urls[i].startIndex # Absent
  /\ Len(urls) > 0 => WindowStart(urls[1]) = 0
  /\ \A i \in 1..(Len(urls) - 1) :
       WindowStart(urls[i + 1]) = WindowStart(urls[i]) + WindowCount(urls[i])
  /\ Len(urls) > 0 =>
       WindowStart(urls[Len(urls)]) + WindowCount(urls[Len(urls)]) = m
  /\ SumCounts(urls) = m

SingleCounted(m) ==
  /\ Len(urls) = 1
  /\ urls[1].count = Some(m)
  /\ urls[1].startIndex = Absent

\* C2 as stated: whenever the effective count n <= p, n = 0 included, there
\* is exactly one request, with count n and no startIndex.
C2_AsStated ==
  (pc = "planned" /\ 0 <= NonZeroCount /\ NonZeroCount <= pagesize)
    => SingleCounted(NonZeroCount)

\* C2 amended: for 1 <= n <= p there is exactly one request, with count n and
\* no startIndex; for n = 0 there is no request at all.
C2_SingleRequest ==
  /\ (pc = "planned" /\ 1 <= NonZeroCount /\ NonZeroCount <= pagesize)
       => SingleCounted(NonZeroCount)
  /\ (pc = "planned" /\ NonZeroCount = 0) => urls = <<>>

C2_Witness ==
  /\ pc = "planned"
  /\ hits = 3 /\ pagesize = 3 /\ countArg = Some(2)
  /\ SingleCounted(2)

\* C9 as stated: every failure of the hits-only request, by status or on the
\* network, reaches the caller as the upstream error (SystemExit in the code).
C9_AsStated ==
  (pc = "failed" /\ failedAt = "get_count") => err = SystemExitError

\* the sort key C10 names for a schema
StatedSortKey(cols) ==
  IF \E i \in DOMAIN cols : cols[i] = "OBJECTID" THEN "OBJECTID"
  ELSE IF \E i \in DOMAIN cols : cols[i] = "SEQUENCE_ID" THEN "SEQUENCE_ID"
  ELSE Head(cols)

\* C10: a plan of more than one request made without a caller's sort key
\* carries, in every request, OBJECTID if the schema has it, else SEQUENCE_ID
\* if it has that, else the schema's first column; and no plan of more than
\* one request is without a sort key.
C10_AutoSortKey ==
  /\ (pc = "planned" /\ Len(urls) > 1 /\ ~TruthyStr(sortbyArg))
       => \A i \in DOMAIN urls : urls[i].sortby = Some(StatedSortKey(columns))
  /\ (pc = "planned" /\ Len(urls) > 1)
       => \A i \in DOMAIN urls : urls[i].sortby # Absent
  /\ (pc = "planned" /\ Len(urls) > 1 /\ sortbyArg = Absent)
       => /\ columns = <<"OBJECTID", "NAME">>
               => urls[1].sortby = Some("OBJECTID")
          /\ columns = <<"SEQUENCE_ID", "NAME">>
               => urls[1].sortby = Some("SEQUENCE_ID")
          /\ columns = <<"FEATURE_ID", "NAME">>
               => urls[1].sortby = Some("FEATURE_ID")

C10_Witness ==
  /\ pc = "planned"
  /\ Len(urls) > 1
  /\ sortbyArg = Absent
  /\ columns = <<"NAME", "SEQUENCE_ID", "OBJECTID">>
  /\ urls[2].sortby = Some("OBJECTID")

\* ------------------------------------------------ claims on the fetchers

\* the first k elements of a sequence
Prefix(s, k) == SubSeq(s, 1, k)

\* some request of the fetch got a non-success status
SomeStatusFailure == \E i \in DOMAIN task : task[i] = SystemExitError

\* C8 as stated: once a request of the fetch has failed with a non-success
\* status and the fetch has ended with that error, no feature of any request
\* has been delivered to the caller, for get_data and for get_features.
C8_AsStated ==
  (pc = "failed" /\ failedAt = "make_request" /\ err = SystemExitError)
    => delivered = <<>>

\* C8 amended: a non-success status of any request ends the fetch with the
\* upstream error (SystemExit) and never with a result.  get_data then
\* delivers no feature at all.  get_features has yielded, in list order, the
\* features of the requests before the first failed one, all of them, and
\* yields nothing of the failed request or of any request after it, however
\* the workers' completions interleave.
C8_FailureAborts ==
  /\ pc = "done" => \A i \in DOMAIN task : task[i] = "ok"
  /\ (pc = "failed" /\ failedAt = "make_request")
       => /\ nextResult \in DOMAIN task
          /\ task[nextResult] \in {SystemExitError, ConnectionErrorName}
          /\ task[nextResult] = SystemExitError => err = SystemExitError
          /\ \A j \in 1..(nextResult - 1) : task[j] = "ok"
  /\ (entry = "get_data" /\ (SomeStatusFailure \/ pc = "failed"))
       => delivered = <<>>
  /\ (entry = "get_features" /\ pc \in {"pool", "unwinding", "failed", "done"})
       => /\ \A j \in 1..(nextResult - 1) : task[j] = "ok"
          /\ delivered =
               Collected(nextResult - 1) \o
                 (IF yieldPos = 0 THEN <<>>
                  ELSE Prefix(FeaturesOf(urls[nextResult]), yieldPos))
  /\ (entry = "get_features" /\ pc \in {"unwinding", "failed"}
        /\ failedAt = "make_request")
       => yieldPos = 0 /\ delivered = Collected(nextResult - 1)

\* get_features fails at the second of three requests after yielding the
\* first request's features; the third request succeeded and is dropped
C8_Witness ==
  /\ entry = "get_features"
  /\ pc = "failed"
  /\ err = SystemExitError
  /\ Len(task) = 3
  /\ task = <<"ok", SystemExitError, "ok">>
  /\ delivered = FeaturesOf(urls[1])

\* ---------------------------------------------------- claims on bc2pg

\* C3 as stated: bc2pg in append mode on a missing table issues no network
\* request at all, the hits-only request included, writes nothing, and ends
\* with the target-missing error.
C3_AsStated ==
  (entry = "bc2pg" /\ append /\ ~tableExists)
    => /\ requests = <<>>
       /\ storage = <<>>
       /\ pc \in {"failed", "done"} => failedAt = "target_missing"

\* the primary key C4 speaks of: given, and no column of the catalogue schema
\* whatever the case of its letters
UnknownPrimaryKey ==
  /\ primaryKey \notin {Absent, Some("")}
  /\ \A i \in DOMAIN catalogue : Upper(catalogue[i]) # Upper(primaryKey[1])

\* C4: in create mode a primary_key that is no column of the catalogue schema
\* makes bc2pg fail before db.define_table: the call never gets past the
\* check, and when it has ended with this error no table has been created
\* and no row appended.
C4_PrimaryKeyBeforeTable ==
  /\ (pc = "failed" /\ failedAt = "invalid_primary_key")
       => ~created /\ storage = <<>>
  /\ (entry = "bc2pg" /\ ~append /\ UnknownPrimaryKey)
       => /\ ~created /\ storage = <<>>
          /\ pc \notin {"define_table", "check_sortby", "loading", "nulls",
                        "finalize", "done"}

\* the error is raised after a probe of the service, and nothing was created
C4_Witness ==
  /\ pc = "failed"
  /\ failedAt = "invalid_primary_key"
  /\ primaryKey = Some("bogus")
  /\ geometryType = Some("POINT")
  /\ ~created

\* every planned request has been fetched and both its appends made
AllChunksAppended ==
  /\ chunk = Len(urls) + 1
  /\ \A k \in DOMAIN urls : FetchedOf(k) # Absent
  /\ Len(storage) = SumCounts(urls)

\* the call failed while loading a chunk
ChunkFailed == failedAt \in {"load_fetch", "to_postgis", "to_sql"}

\* C5 as stated: the load-log row is upserted exactly once when the load is
\* not schema-only and every chunk has been appended, only after the last
\* append, and not at all when the load is schema-only or a chunk failed.
C5_AsStated ==
  /\ (pc = "done" /\ ~schemaOnly) => logUpserts = 1
  /\ logUpserts <= 1
  /\ logUpserts = 1 => ~schemaOnly /\ AllChunksAppended
  /\ (schemaOnly \/ ChunkFailed) => logUpserts = 0

\* C5 amended: over every bc2pg call that returns, the load-log row is
\* upserted exactly once when the load is not schema-only, the timestamp
\* option is on and every chunk has been appended; the upsert comes only
\* after the last chunk's append; and it is not made at all when the load is
\* schema-only, when timestamp is off or when a chunk failed.
C5_LogUpsertedOnce ==
  /\ (pc = "done" /\ ~schemaOnly /\ timestamp) => logUpserts = 1
  /\ logUpserts <= 1
  /\ logUpserts = 1 => ~schemaOnly /\ timestamp /\ AllChunksAppended
  /\ (schemaOnly \/ ~timestamp \/ ChunkFailed) => logUpserts = 0

\* a load of two chunks, logged once at its end
C5_Witness ==
  /\ pc = "done"
  /\ Len(urls) = 2
  /\ Len(storage) = 3
  /\ logUpserts = 1

\* the rows of storage that hold feature f
RowsOf(f) == {i \in DOMAIN storage : storage[i].id = f.id}

\* the geometry a feature's row must hold: its own if multi-part, else the
\* one-member multi-part geometry around it
StoredGeometry(g) ==
  IF g.type \in {"Point", "LineString", "Polygon"}
  THEN [type |-> CASE g.type = "Point" -> "MultiPoint"
                   [] g.type = "LineString" -> "MultiLineString"
                   [] g.type = "Polygon" -> "MultiPolygon",
        z |-> g.z, members |-> <<g>>]
  ELSE g

\* every feature of every request's batch is in storage exactly once, by the
\* path its geometry calls for
AllLoadedOnce ==
  /\ \A k \in DOMAIN urls :
       /\ FetchedOf(k) # Absent
       /\ Len(FetchedOf(k)[1]) = WindowCount(urls[k])
       /\ \A j \in DOMAIN FetchedOf(k)[1] :
            LET f == FetchedOf(k)[1][j]
            IN  /\ Cardinality(RowsOf(f)) = 1
                /\ \A i \in RowsOf(f) :
                     IF f.geometry = Absent
                     THEN storage[i].path = "to_sql" /\ storage[i].geom = Absent
                     ELSE /\ storage[i].path = "to_postgis"
                          /\ storage[i].geom = Some(StoredGeometry(f.geometry[1]))
  /\ Len(storage) = SumCounts(urls)

\* C6 as stated: after a load that completes, every feature of every planned
\* request is in storage exactly once, by the spatial path if it has a
\* geometry and by the plain path without one if not, and the load log holds
\* exactly one row for the table.
C6_AsStated ==
  (entry = "bc2pg" /\ pc = "done" /\ ~schemaOnly)
    => AllLoadedOnce /\ logRows = 1

\* C6 amended: the same, the load log holding exactly one row for the table
\* when the timestamp option is on; with timestamp off the log is not written.
C6_AllRowsLoadedOnce ==
  (entry = "bc2pg" /\ pc = "done" /\ ~schemaOnly)
    => /\ AllLoadedOnce
       /\ timestamp => logRows = 1 /\ logUpserts = 1
       /\ ~timestamp => logUpserts = 0

\* a create-mode load of two chunks whose first batch the probe fetched, with
\* rows of both kinds, over a log that already had the table's row
C6_Witness ==
  /\ entry = "bc2pg" /\ pc = "done" /\ ~schemaOnly
  /\ created /\ geometryTypeArg = Absent
  /\ Len(urls) = 2
  /\ \E i, j \in DOMAIN storage :
       storage[i].path = "to_postgis" /\ storage[j].path = "to_sql"
  /\ logRows = 1 /\ logUpserts = 1

\* ------------------------------------ claims on the cast to multi-part

\* C7: the cast maps every Point to a one-member MultiPoint, every
\* LineString to a one-member MultiLineString, every Polygon to a one-member
\* MultiPolygon, leaves multi-part geometries as they are, and applied to
\* its own result returns that result.
C7_CastToMulti ==
  (entry = "normalize" /\ pc \in {"normalized", "renormalized"})
    => /\ Len(df[1]) = Len(fetched[1][1])
       /\ \A i \in DOMAIN df[1] :
            LET before == fetched[1][1][i].geometry[1]
                after == df[1][i].geometry[1]
            IN  /\ df[1][i].id = fetched[1][1][i].id
                /\ before.type = "Point" =>
                     after = [type |-> "MultiPoint", z |-> before.z,
                              members |-> <<before>>]
                /\ before.type = "LineString" =>
                     after = [type |-> "MultiLineString", z |-> before.z,
                              members |-> <<before>>]
                /\ before.type = "Polygon" =>
                     after = [type |-> "MultiPolygon", z |-> before.z,
                              members |-> <<before>>]
                /\ before.type \in {"MultiPoint", "MultiLineString",
                                    "MultiPolygon"} => after = before
       /\ CastBatch(df[1]) = df[1]

\* a Point and a two-member MultiPolygon, cast twice
C7_Witness ==
  /\ entry = "normalize"
  /\ pc = "renormalized"
  /\ Len(df[1]) = 2
  /\ fetched[1][1][1].geometry[1].type = "Point"
  /\ df[1][1].geometry[1].type = "MultiPoint"
  /\ Len(df[1][1].geometry[1].members) = 1
  /\ fetched[1][1][2].geometry[1].type = "MultiPolygon"
  /\ Len(df[1][2].geometry[1].members) = 2

\* ------------------------------------------- claims on the order of steps

\* C11 as stated: in create mode a sortby that is no column of the target
\* table makes bc2pg fail with the invalid-sort-column error while the target
\* table has not been created.
C11_AsStated ==
  (entry = "bc2pg" /\ ~append /\ pc = "failed" /\ failedAt = "invalid_sortby")
    => ~created

\* ------------------------------------------ claims on a failed load

RECURSIVE CompleteRows(_)
\* the rows of the first k requests' batches, every row of each batch
CompleteRows(k) ==
  IF k = 0 THEN <<>>
  ELSE CompleteRows(k - 1) \o GeomRows(fetched[k][1]) \o NullRows(fetched[k][1])

\* C12 as stated: when the load of a chunk has failed, in its fetch or in
\* either of its two appends, no load-log entry has been written and storage
\* holds exactly the complete rows of the chunks before it, with no row of
\* the failed chunk.
C12_AsStated ==
  (entry = "bc2pg" /\ pc = "failed" /\ ChunkFailed)
    => /\ logUpserts = 0
       /\ storage = CompleteRows(chunk - 1)

\* ------------------------------- claims on the geometry-type resolution

\* the GetFeature requests issued so far
GetFeatureCount ==
  Cardinality({i \in DOMAIN requests : requests[i] = "GetFeature"})

\* some feature of the batch has a geometry
SomeGeometry(batch) == \E i \in DOMAIN batch : batch[i].geometry # Absent

\* geometry-type resolution has run, on a call that gave no geometry_type
Resolved ==
  /\ entry = "bc2pg" /\ ~append
  /\ ~TruthyStr(geometryTypeArg)
  /\ pc = "validate_geom"

\* C13 as stated: the second probe is issued only if no feature of the first
\* probe's batch has a geometry; when some feature of that batch has one,
\* whatever its position, the shape is resolved from the first probe and no
\* second probe is made.
C13_AsStated ==
  /\ Resolved =>
       /\ GetFeatureCount = 2 => ~SomeGeometry(fetched[1][1])
       /\ SomeGeometry(fetched[1][1]) =>
            GetFeatureCount = 1 /\ geometryType # Absent
  /\ (pc = "failed" /\ failedAt = "second_probe")
       => ~SomeGeometry(fetched[1][1])

\* the batch the shape was resolved from: the last probe's
ProbedBatch ==
  IF GetFeatureCount = 1 THEN fetched[1][1] ELSE fetched[Len(urls)][1]

\* some feature of the batch has a third coordinate
SomeZ(batch) ==
  \E i \in DOMAIN batch :
    batch[i].geometry # Absent /\ batch[i].geometry[1].z

\* the shape names that carry the Z flag
ZShapes ==
  {"PointZ", "LineStringZ", "PolygonZ", "MultiPointZ", "MultiLineStringZ",
   "MultiPolygonZ"}

\* C14 as stated: the shape resolved by a probe carries the Z flag if some
\* feature of the probe's batch has a third coordinate, whatever its position
\* in the batch, and does not carry it when none has.
C14_AsStated ==
  (Resolved /\ geometryType # Absent)
    => (geometryType[1] \in ZShapes <=> SomeZ(ProbedBatch))

\* the supported set as C15 states it: six shapes, each with and without Z
StatedShapes ==
  { "POINT", "POINTZ", "MULTIPOINT", "MULTIPOINTZ", "LINESTRING",
    "LINESTRINGZ", "MULTILINESTRING", "MULTILINESTRINGZ", "POLYGON",
    "POLYGONZ", "MULTIPOLYGON", "MULTIPOLYGONZ" }

\* C15 as stated: the unsupported-geometry-type error is raised exactly for
\* the shapes outside the twelve of the supported set, compared without
\* regard to case, and before the table is created; for each of the twelve
\* the call goes on to create the table.
C15_AsStated ==
  /\ (pc = "failed" /\ failedAt = "unsupported_geometry")
       => ~created /\ geometryType[1] \notin StatedShapes
  /\ (entry = "bc2pg" /\ ~append /\ created)
       => geometryType[1] \in StatedShapes

\* ------------------------------------------ claims on the counted predicate

\* C16 as stated: when bounds are supplied, with or without a filter, the
\* hits-only request is restricted by the same predicate as the GetFeature
\* requests planned from its count, the filter AND the bounds.
C16_AsStated ==
  (pc = "planned" /\ bounds # Absent)
    => \A i \in DOMAIN urls : urls[i].CQL_FILTER = hitsFilter

====
